---- MODULE Spec2Model ----
(***************************************************************************)
(* Model of audio_splitter: audiosplit.py (tracklist parsing, trimming,    *)
(* the segment boundary matcher of process_audio_into_segments) and        *)
(* audioutil.py (the batch strip / loudness / average pipeline of main).   *)
(*                                                                         *)
(* Audio.  A decoded file is a buffer: a run-length list of runs           *)
(* [n |-> milliseconds, db |-> level in dBFS].  A pydub.AudioSegment is a  *)
(* window on a buffer, [buf, lo, hi, rev, gain]: the milliseconds lo..hi-1 *)
(* of buf, read backwards when rev, with gain dB applied.  pydub never     *)
(* mutates a segment; every slice, reverse and gain makes a new one.       *)
(* Levels, thresholds and gains are multiples of 10 dB, so that mean power *)
(* compares exactly in integers.                                           *)
(***************************************************************************)
EXTENDS Integers, Sequences, FiniteSets

VARIABLES
    pc,                 \* position in the running program
    audio,              \* the AudioSegment being worked on
    prev_audio,         \* the argument of the latest strip_audio_segment call
    leading_silence,    \* as returned by the latest strip_audio_segment
    trailing_silence,   \* as returned by the latest strip_audio_segment
    silence_threshold,  \* -s / silence_threshold
    strips,             \* number of strip_audio_segment calls made (SpecTrim)
    lines,              \* the non-blank lines of the tracklist file
    tracklist,          \* the list parse_album_info returns
    tolerance,          \* -t / tolerance
    target_dBFS,        \* -v / target_dBFS: None or Some(level)
    audio_loudness,     \* audio.dBFS as measured on the stripped audio
    album,              \* the audio as it enters the matcher loop
    silent_segments,    \* detect_silence's intervals plus the terminal one
    silent_gen,         \* number of intervals the generator has handed out
    track_idx,          \* position of the for loop in tracklist (0: before)
    time_offset,        \* time_offset
    audio_segments,     \* the (segment, track) pairs emitted so far
    inspected,          \* history: every interval tested, with its outcome
    cuts,               \* history: the untrimmed slice of every emitted segment
    gui_log,            \* what gui printed: parse, splice and skip messages
    run,                \* which call of process_audio_into_segments this is
    first_count,        \* number of segments the first call returned
    args,               \* audioutil: the parsed command line
    matches,            \* audioutil: the files the patterns match, in glob order
    export,             \* audioutil: main's export flag
    calls,              \* audioutil: history of the functions main called
    exported            \* audioutil: what segments_export wrote

vars == <<pc, audio, prev_audio, leading_silence, trailing_silence,
          silence_threshold, strips, lines, tracklist, tolerance, target_dBFS,
          audio_loudness, album, silent_segments, silent_gen, track_idx,
          time_offset, audio_segments, inspected, cuts, gui_log, run,
          first_count, args, matches, export, calls, exported>>

utilVars == <<args, matches, export, calls, exported>>

\* Optional values: None, or Some(v)
None == <<>>

Some(v) == <<v>>

----------------------------------------------------------------------------
(* Program constants. *)

\* Defaults.SEEK_STEP
SEEK_STEP == 20

\* Defaults.SILENCE_THRESHOLD
SILENCE_THRESHOLD == -70

\* Defaults.TOLERANCE
TOLERANCE == 0

----------------------------------------------------------------------------
(* Bounds of the model. *)

\* strip_audio_segment calls in a row in SpecTrim
MaxStrips == 2

\* song lines in a tracklist file
MaxTracks == 2

\* silent intervals detect_silence reports
MaxIntervals == 2

\* files the patterns of one audioutil run match
MaxFiles == 2

----------------------------------------------------------------------------
(* Arithmetic helpers. *)

Min(a, b) == IF a <= b THEN a ELSE b

Max(a, b) == IF a >= b THEN a ELSE b

Abs(a) == IF a < 0 THEN -a ELSE a

RECURSIVE Pow10(_)
Pow10(k) == IF k <= 0 THEN 1 ELSE 10 * Pow10(k - 1)

\* mean-square power of a level of -100 dBFS or more, in units of the power
\* of -100 dBFS: 10^((db + 100)/10)
Power(db) == Pow10((db + 100) \div 10)

----------------------------------------------------------------------------
(* pydub.AudioSegment as used by the program. *)

RECURSIVE BufLen(_)
BufLen(buf) == IF buf = <<>> THEN 0 ELSE Head(buf).n + BufLen(Tail(buf))

\* sum of the power of the milliseconds x..y-1 of a buffer that starts at `at`
RECURSIVE BufEnergy(_, _, _, _)
BufEnergy(buf, at, x, y) ==
    IF buf = <<>> THEN 0
    ELSE LET r == Head(buf)
             overlap == Max(0, Min(y, at + r.n) - Max(x, at))
         IN  overlap * Power(r.db) + BufEnergy(Tail(buf), at + r.n, x, y)

\* AudioSegment.from_file: the whole buffer, nothing applied
FromFile(buf) == [buf |-> buf, lo |-> 0, hi |-> BufLen(buf), rev |-> FALSE, gain |-> 0]

\* len(segment), in milliseconds
SegLen(seg) == seg.hi - seg.lo

\* AudioSegment._parse_position: a negative position counts from the end
ParsePosition(seg, val) == IF val < 0 THEN SegLen(seg) - Abs(val) ELSE val

\* the index arithmetic of data[start:end] on data of length n
PyIndex(i, n) == IF i < 0 THEN Max(i + n, 0) ELSE Min(i, n)

\* segment[start:end] (AudioSegment.__getitem__ with a slice, start >= 0)
GetItem(seg, start, end) ==
    LET n  == SegLen(seg)
        s1 == PyIndex(ParsePosition(seg, Min(start, n)), n)
        e1 == PyIndex(ParsePosition(seg, Min(end, n)), n)
        s  == s1
        e  == Max(e1, s1)
    IN  IF seg.rev
        THEN [seg EXCEPT !.lo = seg.hi - e, !.hi = seg.hi - s]
        ELSE [seg EXCEPT !.lo = seg.lo + s, !.hi = seg.lo + e]

\* segment[start:]
SliceFrom(seg, start) == GetItem(seg, start, SegLen(seg))

\* segment[:end]
SliceTo(seg, end) == GetItem(seg, 0, end)

\* segment.reverse()
Reverse(seg) == [seg EXCEPT !.rev = ~seg.rev]

\* segment + volume (apply_gain)
ApplyGain(seg, volume) == [seg EXCEPT !.gain = seg.gain + volume]

\* sum of the power of a segment's milliseconds, before its gain
Energy(seg) == BufEnergy(seg.buf, 0, seg.lo, seg.hi)

\* segment.dBFS < threshold; the dBFS of an empty segment is -infinity
DBFSBelow(seg, threshold) ==
    \/ SegLen(seg) = 0
    \/ Energy(seg) < SegLen(seg) * Power(threshold - seg.gain)

\* the level of the i-th millisecond of a segment, gain included
RECURSIVE BufLevel(_, _)
BufLevel(buf, i) ==
    IF i < Head(buf).n THEN Head(buf).db ELSE BufLevel(Tail(buf), i - Head(buf).n)

SampleAt(seg, i) ==
    BufLevel(seg.buf, IF seg.rev THEN seg.hi - 1 - i ELSE seg.lo + i) + seg.gain

\* two segments hold the same samples
SameAudio(a, b) ==
    /\ SegLen(a) = SegLen(b)
    /\ \A i \in 0..(SegLen(a) - 1) : SampleAt(a, i) = SampleAt(b, i)

----------------------------------------------------------------------------
(* pydub.silence.detect_leading_silence, and the trimmer built on it. *)

\* while sound[trim_ms:trim_ms+chunk_size].dBFS < silence_threshold
\*       and trim_ms < len(sound): trim_ms += chunk_size
RECURSIVE LeadingLoop(_, _, _, _)
LeadingLoop(sound, threshold, chunk_size, trim_ms) ==
    IF /\ DBFSBelow(GetItem(sound, trim_ms, trim_ms + chunk_size), threshold)
       /\ trim_ms < SegLen(sound)
    THEN LeadingLoop(sound, threshold, chunk_size, trim_ms + chunk_size)
    ELSE Min(trim_ms, SegLen(sound))

detect_leading_silence(sound, threshold, chunk_size) ==
    LeadingLoop(sound, threshold, chunk_size, 0)

\* trailing_silence = max(trailing_silence, 1)
FloorTrailing(trailing) == Max(trailing, 1)

\* strip_audio_segment: <<audio[leading:-trailing], leading, trailing>>
strip_audio_segment(seg, threshold) ==
    LET leading  == detect_leading_silence(seg, threshold, SEEK_STEP)
        trailing == FloorTrailing(
                        detect_leading_silence(Reverse(seg), threshold, SEEK_STEP))
    IN  <<GetItem(seg, leading, -trailing), leading, trailing>>

----------------------------------------------------------------------------
(* Inputs. *)

\* levels of a millisecond of audio: silence, a quiet passage, music
Levels == {-90, -60, -40}

\* run lengths, around the seek step
RunLengths == {0, 1, 19, 20, 21, 45}

\* drop the empty runs of a buffer
RECURSIVE Compact(_)
Compact(buf) ==
    IF buf = <<>> THEN <<>>
    ELSE IF Head(buf).n = 0 THEN Compact(Tail(buf))
    ELSE <<Head(buf)>> \o Compact(Tail(buf))

\* buffers: silence, music, a run of any level, silence
TrimBuffers ==
    { Compact(<<[n |-> a, db |-> -90], [n |-> b, db |-> -40],
                [n |-> c, db |-> l], [n |-> d, db |-> -90]>>) :
        a \in RunLengths, b \in {1, 20, 45}, c \in {0, 5, 20}, l \in Levels,
        d \in RunLengths }

Thresholds == {SILENCE_THRESHOLD, -50}

----------------------------------------------------------------------------
(* SpecTrim: strip_audio_segment applied again and again to one segment. *)

\* the variables of the splitter, at rest
SplitterIdle ==
    /\ lines = <<>>
    /\ tracklist = <<>>
    /\ tolerance = TOLERANCE
    /\ target_dBFS = None
    /\ audio_loudness = 0
    /\ album = audio
    /\ silent_segments = <<>>
    /\ silent_gen = 0
    /\ track_idx = 0
    /\ time_offset = 0
    /\ audio_segments = <<>>
    /\ inspected = <<>>
    /\ cuts = <<>>
    /\ gui_log = <<>>
    /\ run = 1
    /\ first_count = 0

\* the variables of audioutil, at rest
UtilIdle ==
    /\ args = [list |-> FALSE, strip |-> None, loudness |-> None, average |-> None]
    /\ matches = <<>>
    /\ export = FALSE
    /\ calls = <<>>
    /\ exported = <<>>

splitterVars == <<lines, tracklist, tolerance, target_dBFS, audio_loudness, album,
                  silent_segments, silent_gen, track_idx, time_offset,
                  audio_segments, inspected, cuts, gui_log, run, first_count>>

InitTrim ==
    /\ pc = "trim"
    /\ \E buf \in TrimBuffers : audio = FromFile(buf)
    /\ SplitterIdle
    /\ UtilIdle
    /\ prev_audio = audio
    /\ leading_silence = 0
    /\ trailing_silence = 0
    /\ silence_threshold \in Thresholds
    /\ strips = 0

Strip ==
    /\ pc = "trim"
    /\ strips < MaxStrips
    /\ LET r == strip_audio_segment(audio, silence_threshold)
       IN  /\ audio' = r[1]
           /\ leading_silence' = r[2]
           /\ trailing_silence' = r[3]
    /\ prev_audio' = audio
    /\ strips' = strips + 1
    /\ UNCHANGED <<pc, silence_threshold>>
    /\ UNCHANGED splitterVars
    /\ UNCHANGED utilVars

NextTrim == Strip

SpecTrim == InitTrim /\ [][NextTrim]_vars

----------------------------------------------------------------------------
(* audiosplit.py: the tracklist file and parse_album_info. *)

\* a line of the file, by the regular expression that matches it:
\* kind "album" | "artist" | "year" | "song" | "other"; text is the captured
\* name, year or title; number and mmss (the chunks of mm:ss) are a song's
Line(kind, text, number, mmss) ==
    [kind |-> kind, text |-> text, number |-> number, mmss |-> mmss]

\* SongInfo(artist, album, title, year, track_number, duration)
SongInfo(artist, album_title, title, year, track_number, duration) ==
    [artist |-> artist, album |-> album_title, title |-> title, year |-> year,
     track_number |-> track_number, duration |-> duration]

\* duration_string_to_millis on the chunks of duration.split(':')
duration_string_to_millis(chunks) ==
    IF Len(chunks) # 2 THEN -1
    ELSE LET minutes == chunks[1]
             seconds == chunks[2]
         IN  IF minutes < 0 \/ seconds < 0 THEN -1
             ELSE minutes * 60 * 1000 + seconds * 1000

\* the body of the loop over the lines: st is [album, artist, year, tracks]
ParseLine(st, line) ==
    CASE line.kind = "album"  -> [st EXCEPT !.album = line.text]
      [] line.kind = "artist" -> [st EXCEPT !.artist = line.text]
      [] line.kind = "year"   -> [st EXCEPT !.year = line.text]
      [] line.kind = "song"   ->
            LET duration == Max(duration_string_to_millis(line.mmss), 0)
            IN  [st EXCEPT !.tracks = Append(@,
                    SongInfo(st.artist, st.album, line.text, st.year,
                             line.number, duration))]
      [] OTHER -> st

RECURSIVE ParseLines(_, _)
ParseLines(st, ls) ==
    IF ls = <<>> THEN st ELSE ParseLines(ParseLine(st, Head(ls)), Tail(ls))

\* parse_album_info: the tracks, in the order of their lines
parse_album_info(ls) ==
    ParseLines([album |-> "", artist |-> "", year |-> "", tracks |-> <<>>], ls).tracks

----------------------------------------------------------------------------
(* audiosplit.py: the steps of process_audio_into_segments. *)

\* (mutant) the terminal interval left out
AppendTerminal_Missing(segments, seg) == segments

\* silent_segments.append([len(audio), len(audio)])
AppendTerminal(segments, seg) == Append(segments, <<SegLen(seg), SegLen(seg)>>)

\* (mutant) the test made strict
Qualifies_Strict(duration, tol, silence_end) == duration - tol < silence_end

\* (mutant) the tolerance added instead of subtracted
Qualifies_SignSlip(duration, tol, silence_end) == duration + tol <= silence_end

\* if track.duration - tolerance <= silence_end
Qualifies(duration, tol, silence_end) == duration - tol <= silence_end

\* (mutant) time_offset = silence_end
AdvanceOffset_Assign(offset, silence_end) == silence_end

\* time_offset += silence_end
AdvanceOffset(offset, silence_end) == offset + silence_end

\* (mutant) the break left out
AfterSplice_NoBreak == "while"

\* the break that ends the while loop once a track is spliced
AfterSplice == "for"

\* (mutant) a generator made anew for every track
GeneratorForTrack_Fresh(gen) == 0

\* silent_gen is made once, before the for loop: every track goes on with
\* the generator as the previous track left it
GeneratorForTrack(gen) == gen

\* next(silent_gen, None): the index of the interval handed out, 0 for None.
\* An exhausted generator stays exhausted.
NextSilence(gen, segments) == IF gen < Len(segments) THEN gen + 1 ELSE 0

\* for track in tracklist: the next position, 0 when the list is over
NextTrackIdx(idx, tracks) == IF idx < Len(tracks) THEN idx + 1 ELSE 0

----------------------------------------------------------------------------
(* Inputs of the splitter. *)

HeaderLines ==
    <<Line("album", "An Album", 0, <<>>), Line("artist", "A Band", 0, <<>>),
      Line("year", 1999, 0, <<>>), Line("other", "side one", 0, <<>>)>>

\* mm:ss of a song line
DurationTexts == {<<0, 1>>, <<0, 2>>}

Titles == <<"one", "two", "three", "four">>

Orders(n) ==
    { p \in [1..n -> 1..n] : \A i, j \in 1..n : i # j => p[i] # p[j] }

\* tracklist files: the header, then the song lines 1..n in any order
TracklistFiles ==
    UNION { { HeaderLines \o [i \in 1..n |->
                  Line("song", Titles[p[i]], p[i], d[p[i]])] :
              p \in Orders(n), d \in [1..n -> DurationTexts] } :
            n \in 1..MaxTracks }

Tolerances == {TOLERANCE, 1000}

\* album recordings: leading silence, music with pauses, trailing silence
AlbumBuffers ==
    { <<[n |-> 40, db |-> -90], [n |-> 2960, db |-> -40], [n |-> 30, db |-> -90]>>,
      <<[n |-> 990, db |-> -40], [n |-> 420, db |-> -90], [n |-> 1190, db |-> -40],
        [n |-> 25, db |-> -60], [n |-> 400, db |-> -40]>> }

\* where silences may begin and end, in stripped-audio milliseconds
Cuts == {200, 400, 900, 1000, 2000}

\* what detect_silence may return on audio of length n: at most k intervals
\* [start, end] with start < end <= n, ascending, with a gap between them
RECURSIVE SilenceLists(_, _, _)
SilenceLists(from, n, k) ==
    {<<>>} \cup
    IF k = 0 THEN {}
    ELSE UNION { UNION { { <<<<s, e>>>> \o rest :
                             rest \in SilenceLists(e + 1, n, k - 1) } :
                         e \in {c \in Cuts \cup {n} : s < c /\ c <= n} } :
                 s \in {c \in Cuts : c >= from} }

\* -v: no adjustment, the measured loudness itself (a gain of 0), or louder
Targets == {None, Some(-40), Some(-30)}

----------------------------------------------------------------------------
(* Spec: audiosplit.py's main up to the list process_audio_into_segments   *)
(* returns.                                                                *)

Init ==
    /\ pc = "parse"
    /\ lines \in TracklistFiles
    /\ tolerance \in Tolerances
    /\ target_dBFS \in Targets
    /\ silence_threshold \in Thresholds
    /\ \E buf \in AlbumBuffers : audio = FromFile(buf)
    /\ audio_loudness = -40
    /\ prev_audio = audio
    /\ album = audio
    /\ leading_silence = 0
    /\ trailing_silence = 0
    /\ strips = 0
    /\ tracklist = <<>>
    /\ silent_segments = <<>>
    /\ silent_gen = 0
    /\ track_idx = 0
    /\ time_offset = 0
    /\ audio_segments = <<>>
    /\ inspected = <<>>
    /\ cuts = <<>>
    /\ gui_log = <<>>
    /\ run = 1
    /\ first_count = 0
    /\ UtilIdle

\* tracklist = parse_album_info(args.tracklist)
ParseAlbumInfo ==
    /\ pc = "parse"
    /\ tracklist' = parse_album_info(lines)
    /\ pc' = "load"
    /\ UNCHANGED <<audio, prev_audio, leading_silence, trailing_silence,
                   silence_threshold, strips, lines, tolerance, target_dBFS,
                   audio_loudness, album, silent_segments, silent_gen, track_idx,
                   time_offset, audio_segments, inspected, cuts, gui_log, run,
                   first_count>>
    /\ UNCHANGED utilVars

\* audio = from_file(audio_path); audio, leading, trailing = strip_audio_segment(...)
LoadAndStrip ==
    /\ pc = "load"
    /\ LET r == strip_audio_segment(audio, silence_threshold)
       IN  /\ audio' = r[1]
           /\ leading_silence' = r[2]
           /\ trailing_silence' = r[3]
    /\ prev_audio' = audio
    /\ pc' = "loudness"
    /\ UNCHANGED <<silence_threshold, strips, lines, tracklist, tolerance,
                   target_dBFS, audio_loudness, album, silent_segments, silent_gen,
                   track_idx, time_offset, audio_segments, inspected, cuts,
                   gui_log, run, first_count>>
    /\ UNCHANGED utilVars

\* if target_dBFS != None: audio += (target_dBFS - audio.dBFS)
AdjustLoudness ==
    /\ pc = "loudness"
    /\ target_dBFS # None
    /\ audio' = ApplyGain(audio, target_dBFS[1] - audio_loudness)
    /\ pc' = "detect"
    /\ UNCHANGED <<prev_audio, leading_silence, trailing_silence,
                   silence_threshold, strips, lines, tracklist, tolerance,
                   target_dBFS, audio_loudness, album, silent_segments, silent_gen,
                   track_idx, time_offset, audio_segments, inspected, cuts,
                   gui_log, run, first_count>>
    /\ UNCHANGED utilVars

\* target_dBFS is None: the audio is left as it is
KeepLoudness ==
    /\ pc = "loudness"
    /\ target_dBFS = None
    /\ pc' = "detect"
    /\ UNCHANGED <<audio, prev_audio, leading_silence, trailing_silence,
                   silence_threshold, strips, lines, tracklist, tolerance,
                   target_dBFS, audio_loudness, album, silent_segments, silent_gen,
                   track_idx, time_offset, audio_segments, inspected, cuts,
                   gui_log, run, first_count>>
    /\ UNCHANGED utilVars

\* silent_segments = detect_silence(audio, ...); the terminal interval is
\* appended; the generator, the result list and the offset start
DetectSilence ==
    /\ pc = "detect"
    /\ \E found \in SilenceLists(0, SegLen(audio), MaxIntervals) :
           silent_segments' = AppendTerminal(found, audio)
    /\ silent_gen' = 0
    /\ audio_segments' = <<>>
    /\ time_offset' = 0
    /\ album' = audio
    /\ pc' = "for"
    /\ UNCHANGED <<audio, prev_audio, leading_silence, trailing_silence,
                   silence_threshold, strips, lines, tracklist, tolerance,
                   target_dBFS, audio_loudness, track_idx, inspected, cuts,
                   gui_log, run, first_count>>
    /\ UNCHANGED utilVars

\* for track in tracklist: the next track; gui.log_parse(track)
ForTrack ==
    /\ pc = "for"
    /\ NextTrackIdx(track_idx, tracklist) # 0
    /\ track_idx' = NextTrackIdx(track_idx, tracklist)
    /\ gui_log' = Append(gui_log,
           [kind |-> "parse", begin |-> 0, end |-> tracklist[track_idx'].duration])
    /\ silent_gen' = GeneratorForTrack(silent_gen)
    /\ pc' = "while"
    /\ UNCHANGED <<audio, prev_audio, leading_silence, trailing_silence,
                   silence_threshold, strips, lines, tracklist, tolerance,
                   target_dBFS, audio_loudness, album, silent_segments,
                   time_offset, audio_segments, inspected, cuts, run, first_count>>
    /\ UNCHANGED utilVars

\* the tracklist is over: return audio_segments
Return ==
    /\ pc = "for"
    /\ NextTrackIdx(track_idx, tracklist) = 0
    /\ pc' = "done"
    /\ UNCHANGED <<audio, prev_audio, leading_silence, trailing_silence,
                   silence_threshold, strips, lines, tracklist, tolerance,
                   target_dBFS, audio_loudness, album, silent_segments, silent_gen,
                   track_idx, time_offset, audio_segments, inspected, cuts,
                   gui_log, run, first_count>>
    /\ UNCHANGED utilVars

\* next(silent_gen, None) is None: the while loop ends without a segment
Exhausted ==
    /\ pc = "while"
    /\ NextSilence(silent_gen, silent_segments) = 0
    /\ pc' = "for"
    /\ UNCHANGED <<audio, prev_audio, leading_silence, trailing_silence,
                   silence_threshold, strips, lines, tracklist, tolerance,
                   target_dBFS, audio_loudness, album, silent_segments, silent_gen,
                   track_idx, time_offset, audio_segments, inspected, cuts,
                   gui_log, run, first_count>>
    /\ UNCHANGED utilVars

\* the interval ends late enough for the track: cut, trim, emit, advance
Splice ==
    /\ pc = "while"
    /\ NextSilence(silent_gen, silent_segments) # 0
    /\ LET i == NextSilence(silent_gen, silent_segments)
           silent_segment == silent_segments[i]
           silence_begin == silent_segment[1] - time_offset
           silence_end == silent_segment[2] - time_offset
           track == tracklist[track_idx]
           cut == SliceTo(audio, silence_begin)
           stripped == strip_audio_segment(cut, SILENCE_THRESHOLD)
       IN  /\ Qualifies(track.duration, tolerance, silence_end)
           /\ silent_gen' = i
           /\ audio_segments' = Append(audio_segments, <<stripped[1], track>>)
           /\ audio' = SliceFrom(audio, silence_end)
           /\ time_offset' = AdvanceOffset(time_offset, silence_end)
           /\ gui_log' = Append(gui_log,
                  [kind |-> "splice", begin |-> silent_segment[1] + leading_silence,
                   end |-> silent_segment[2] + leading_silence])
           /\ inspected' = Append(inspected,
                  [track |-> track_idx, interval |-> i, offset |-> time_offset,
                   outcome |-> "splice"])
           /\ cuts' = Append(cuts, cut)
           /\ prev_audio' = cut
    /\ pc' = AfterSplice
    /\ UNCHANGED <<leading_silence, trailing_silence, silence_threshold, strips,
                   lines, tracklist, tolerance, target_dBFS, audio_loudness, album,
                   silent_segments, track_idx, run, first_count>>
    /\ UNCHANGED utilVars

\* the interval ends too early for the track: gui.warn_skip, keep scanning
SkipSilence ==
    /\ pc = "while"
    /\ NextSilence(silent_gen, silent_segments) # 0
    /\ LET i == NextSilence(silent_gen, silent_segments)
           silent_segment == silent_segments[i]
           silence_end == silent_segment[2] - time_offset
           track == tracklist[track_idx]
       IN  /\ ~Qualifies(track.duration, tolerance, silence_end)
           /\ silent_gen' = i
           /\ gui_log' = Append(gui_log,
                  [kind |-> "skip", begin |-> silent_segment[1] + leading_silence,
                   end |-> silent_segment[2] + leading_silence])
           /\ inspected' = Append(inspected,
                  [track |-> track_idx, interval |-> i, offset |-> time_offset,
                   outcome |-> "skip"])
    /\ UNCHANGED <<pc, audio, prev_audio, leading_silence, trailing_silence,
                   silence_threshold, strips, lines, tracklist, tolerance,
                   target_dBFS, audio_loudness, album, silent_segments, track_idx,
                   time_offset, audio_segments, cuts, run, first_count>>
    /\ UNCHANGED utilVars

Next ==
    \/ ParseAlbumInfo
    \/ LoadAndStrip
    \/ AdjustLoudness
    \/ KeepLoudness
    \/ DetectSilence
    \/ ForTrack
    \/ Return
    \/ Exhausted
    \/ Splice
    \/ SkipSilence

Spec == Init /\ [][Next]_vars

----------------------------------------------------------------------------
(* SpecMono: process_audio_into_segments called a second time on the same  *)
(* file and tracklist with a tolerance at least as large. Loading,         *)
(* stripping, adjusting and detect_silence are deterministic: the second   *)
(* call starts its loop from the same audio and the same intervals.        *)

WiderTolerances == {TOLERANCE, 100, 1000, 1100}

SecondCall ==
    /\ pc = "done"
    /\ run = 1
    /\ \E t2 \in WiderTolerances : t2 >= tolerance /\ tolerance' = t2
    /\ first_count' = Len(audio_segments)
    /\ run' = 2
    /\ audio' = album
    /\ silent_gen' = 0
    /\ audio_segments' = <<>>
    /\ time_offset' = 0
    /\ track_idx' = 0
    /\ inspected' = <<>>
    /\ cuts' = <<>>
    /\ pc' = "for"
    /\ UNCHANGED <<prev_audio, leading_silence, trailing_silence,
                   silence_threshold, strips, lines, tracklist, target_dBFS,
                   audio_loudness, album, silent_segments, gui_log>>
    /\ UNCHANGED utilVars

InitMono ==
    /\ Init
    /\ silence_threshold = SILENCE_THRESHOLD
    /\ target_dBFS \in {None, Some(audio_loudness)}

NextMono == Next \/ SecondCall

SpecMono == InitMono /\ [][NextMono]_vars

----------------------------------------------------------------------------
(* audioutil.py: the functions main calls on its list of (path, segment).  *)

\* `if args.x:` on an optional float: None and 0 are both false
Truthy(opt) == opt # None /\ opt[1] # 0

\* scan_for_segments: the first file of every content hash, in match order
RECURSIVE scan_for_segments(_, _)
scan_for_segments(found, seen) ==
    IF found = <<>> THEN <<>>
    ELSE LET f == Head(found)
         IN  IF f.buf \in seen
             THEN scan_for_segments(Tail(found), seen)
             ELSE <<<<f.path, FromFile(f.buf)>>>>
                      \o scan_for_segments(Tail(found), seen \cup {f.buf})

\* segments_strip: the same trimming as strip_audio_segment, per file
StripOne(seg, threshold) ==
    LET leading_s == detect_leading_silence(seg, threshold, SEEK_STEP)
        ending_s  == FloorTrailing(
                         detect_leading_silence(Reverse(seg), threshold, SEEK_STEP))
    IN  GetItem(seg, leading_s, -ending_s)

segments_strip(segments, threshold) ==
    [i \in 1..Len(segments) |-> <<segments[i][1], StripOne(segments[i][2], threshold)>>]

\* segments_loudness: segment + volume for every file
segments_loudness(segments, volume) ==
    [i \in 1..Len(segments) |-> <<segments[i][1], ApplyGain(segments[i][2], volume)>>]

\* segments_average: one gain, target - dBFS of the concatenation, for every
\* file; measured is the dBFS of the concatenation
segments_average(segments, target_loudness, measured) ==
    [i \in 1..Len(segments) |->
        <<segments[i][1], ApplyGain(segments[i][2], target_loudness - measured)>>]

----------------------------------------------------------------------------
(* SpecUtil: audioutil.py's main. *)

\* files on disk: b.mp3 is a copy of a.mp3
UtilFiles ==
    { [path |-> "a.mp3", buf |-> <<[n |-> 20, db |-> -90], [n |-> 45, db |-> -40]>>],
      [path |-> "b.mp3", buf |-> <<[n |-> 20, db |-> -90], [n |-> 45, db |-> -40]>>],
      [path |-> "c.mp3", buf |-> <<[n |-> 21, db |-> -40], [n |-> 40, db |-> -90]>>] }

MatchLists == UNION { [1..n -> UtilFiles] : n \in 1..MaxFiles }

\* -s with no value is Defaults.SILENCE_THRESHOLD
StripArgs == {None, Some(SILENCE_THRESHOLD), Some(-50), Some(0)}

LoudnessArgs == {None, Some(0), Some(10)}

AverageArgs == {None, Some(0), Some(-30)}

InitUtil ==
    /\ pc = "scan"
    /\ args \in [list : BOOLEAN, strip : StripArgs, loudness : LoudnessArgs,
                  average : AverageArgs]
    /\ matches \in MatchLists
    /\ export = FALSE
    /\ calls = <<>>
    /\ exported = <<>>
    /\ audio_segments = <<>>
    /\ audio_loudness = -40
    /\ audio = FromFile(<<>>)
    /\ prev_audio = audio
    /\ leading_silence = 0
    /\ trailing_silence = 0
    /\ silence_threshold = SILENCE_THRESHOLD
    /\ strips = 0
    /\ lines = <<>>
    /\ tracklist = <<>>
    /\ tolerance = TOLERANCE
    /\ target_dBFS = None
    /\ album = audio
    /\ silent_segments = <<>>
    /\ silent_gen = 0
    /\ track_idx = 0
    /\ time_offset = 0
    /\ inspected = <<>>
    /\ cuts = <<>>
    /\ gui_log = <<>>
    /\ run = 1
    /\ first_count = 0

utilFrame ==
    <<audio, prev_audio, leading_silence, trailing_silence, silence_threshold,
      strips, lines, tracklist, tolerance, target_dBFS, audio_loudness, album,
      silent_segments, silent_gen, track_idx, time_offset, inspected, cuts,
      gui_log, run, first_count, args, matches>>

\* audio_segments = scan_for_segments(args.input); export = False
Scan ==
    /\ pc = "scan"
    /\ audio_segments' = scan_for_segments(matches, {})
    /\ export' = FALSE
    /\ calls' = Append(calls, "scan_for_segments")
    /\ pc' = "list"
    /\ UNCHANGED <<exported>>
    /\ UNCHANGED utilFrame

\* if args.list: segments_info(audio_segments)
ListInfo ==
    /\ pc = "list"
    /\ args.list
    /\ calls' = Append(calls, "segments_info")
    /\ pc' = "strip"
    /\ UNCHANGED <<audio_segments, export, exported>>
    /\ UNCHANGED utilFrame

NoList ==
    /\ pc = "list"
    /\ ~args.list
    /\ pc' = "strip"
    /\ UNCHANGED <<audio_segments, export, calls, exported>>
    /\ UNCHANGED utilFrame

\* if args.strip: audio_segments = segments_strip(...); export = True
StripSegments ==
    /\ pc = "strip"
    /\ Truthy(args.strip)
    /\ audio_segments' = segments_strip(audio_segments, args.strip[1])
    /\ export' = TRUE
    /\ calls' = Append(calls, "segments_strip")
    /\ pc' = "loudness"
    /\ UNCHANGED <<exported>>
    /\ UNCHANGED utilFrame

NoStrip ==
    /\ pc = "strip"
    /\ ~Truthy(args.strip)
    /\ pc' = "loudness"
    /\ UNCHANGED <<audio_segments, export, calls, exported>>
    /\ UNCHANGED utilFrame

\* if args.loudness: audio_segments = segments_loudness(...); export = True
LoudnessSegments ==
    /\ pc = "loudness"
    /\ Truthy(args.loudness)
    /\ audio_segments' = segments_loudness(audio_segments, args.loudness[1])
    /\ export' = TRUE
    /\ calls' = Append(calls, "segments_loudness")
    /\ pc' = "average"
    /\ UNCHANGED <<exported>>
    /\ UNCHANGED utilFrame

NoLoudness ==
    /\ pc = "loudness"
    /\ ~Truthy(args.loudness)
    /\ pc' = "average"
    /\ UNCHANGED <<audio_segments, export, calls, exported>>
    /\ UNCHANGED utilFrame

\* if args.average: audio_segments = segments_average(...); export = True.
\* Every segment carries the same gain so far, so the concatenation measures
\* audio_loudness plus that gain.
AverageSegments ==
    /\ pc = "average"
    /\ Truthy(args.average)
    /\ audio_segments' = segments_average(audio_segments, args.average[1],
                              audio_loudness + audio_segments[1][2].gain)
    /\ export' = TRUE
    /\ calls' = Append(calls, "segments_average")
    /\ pc' = "export"
    /\ UNCHANGED <<exported>>
    /\ UNCHANGED utilFrame

NoAverage ==
    /\ pc = "average"
    /\ ~Truthy(args.average)
    /\ pc' = "export"
    /\ UNCHANGED <<audio_segments, export, calls, exported>>
    /\ UNCHANGED utilFrame

\* if export: segments_export(audio_segments, args.output)
ExportSegments ==
    /\ pc = "export"
    /\ export
    /\ exported' = audio_segments
    /\ calls' = Append(calls, "segments_export")
    /\ pc' = "done"
    /\ UNCHANGED <<audio_segments, export>>
    /\ UNCHANGED utilFrame

NoExport ==
    /\ pc = "export"
    /\ ~export
    /\ pc' = "done"
    /\ UNCHANGED <<audio_segments, export, calls, exported>>
    /\ UNCHANGED utilFrame

NextUtil ==
    \/ Scan
    \/ ListInfo
    \/ NoList
    \/ StripSegments
    \/ NoStrip
    \/ LoudnessSegments
    \/ NoLoudness
    \/ AverageSegments
    \/ NoAverage
    \/ ExportSegments
    \/ NoExport

SpecUtil == InitUtil /\ [][NextUtil]_vars

----------------------------------------------------------------------------
(* Reading the matcher's history. *)

InMatcher == pc \in {"for", "while", "done"}

Range(seq) == { seq[i] : i \in 1..Len(seq) }

IsSplice(r) == r.outcome = "splice"

\* the tests that ended in a splice, in the order they happened
Splices == SelectSeq(inspected, IsSplice)

\* index in silent_segments of the interval of the m-th splice (0: none yet)
MatchedInterval(m) == IF m = 0 THEN 0 ELSE Splices[m].interval

\* album time at which the interval of the m-th splice ends (0: none yet)
MatchedEnd(m) == IF m = 0 THEN 0 ELSE silent_segments[Splices[m].interval][2]

\* album time at which the interval of the m-th splice begins
MatchedBegin(m) == silent_segments[Splices[m].interval][1]

\* what track t must reach: track.duration - tolerance
Needed(t) == tracklist[t].duration - tolerance

----------------------------------------------------------------------------
(* Claims on the segment boundary matcher (Spec). *)

\* C1: for every track, in processing order, the interval chosen as its
\* boundary lies strictly after the interval chosen for the previous track and
\* is the earliest such interval (s, e) with e - time_offset >= duration -
\* tolerance; every interval between the two was inspected for this track,
\* failed the test and was skipped; a later, better fitting interval is never
\* preferred.
C1_EarliestQualifyingInterval ==
    InMatcher =>
        \A m \in 1..Len(Splices) :
            LET r    == Splices[m]
                from == MatchedInterval(m - 1)
                off  == MatchedEnd(m - 1)
            IN  /\ r.track = m
                /\ audio_segments[m][2] = tracklist[m]
                /\ r.interval > from
                /\ silent_segments[r.interval][2] - off >= Needed(m)
                /\ \A i \in (from + 1)..(r.interval - 1) :
                       /\ silent_segments[i][2] - off < Needed(m)
                       /\ [track |-> m, interval |-> i, offset |-> off,
                           outcome |-> "skip"] \in Range(inspected)

\* a track was spliced at the first qualifying interval, after a skipped one,
\* although a later silence ends nearer to the expected duration
C1_Witness ==
    /\ pc = "done"
    /\ \E m \in 1..Len(Splices) :
           LET r   == Splices[m]
               off == MatchedEnd(m - 1)
               d   == tracklist[m].duration
           IN  /\ r.interval > MatchedInterval(m - 1) + 1
               /\ \E j \in (r.interval + 1)..Len(silent_segments) :
                      Abs(silent_segments[j][2] - off - d)
                          < Abs(silent_segments[r.interval][2] - off - d)

\* the last track's scan began with the terminal interval still in the generator
TerminalLeftForLastTrack ==
    /\ tracklist # <<>>
    /\ \A r \in Range(inspected) :
           r.interval = Len(silent_segments) => r.track = Len(tracklist)

LastTrackEmitted ==
    \E i \in 1..Len(audio_segments) : audio_segments[i][2] = tracklist[Len(tracklist)]

\* C2 as claimed: whenever the scan reaches the last track with the terminal
\* interval not yet consumed, a segment is emitted for the last track, for
\* every expected duration and tolerance.
C2_LastTrackAlwaysEmitted ==
    (pc = "done" /\ TerminalLeftForLastTrack) => LastTrackEmitted

\* C2 as amended: whenever the scan reaches the last track with the terminal
\* interval not yet consumed, a segment is emitted for it exactly when the
\* audio remaining at that point is at least duration - tolerance long; its
\* boundary is then the end of the audio when no earlier remaining silence
\* qualifies. Otherwise the terminal interval is skipped like any other and
\* the last track gets no segment.
C2_LastTrackEmittedIfLongEnough ==
    (pc = "done" /\ TerminalLeftForLastTrack) =>
        LET last == Len(tracklist)
            off  == MatchedEnd(last - 1)
            rest == (MatchedInterval(last - 1) + 1)..(Len(silent_segments) - 1)
        IN  /\ Len(Splices) >= last - 1
            /\ LastTrackEmitted <=> SegLen(album) - off >= Needed(last)
            /\ (/\ LastTrackEmitted
                /\ \A i \in rest : silent_segments[i][2] - off < Needed(last))
               => /\ MatchedInterval(last) = Len(silent_segments)
                  /\ MatchedEnd(last) = SegLen(album)
                  /\ cuts[last] = SliceFrom(album, off)

\* the last track was cut at the end of the audio, past a skipped silence
C2_Witness ==
    /\ pc = "done"
    /\ TerminalLeftForLastTrack
    /\ Len(tracklist) > 1
    /\ LastTrackEmitted
    /\ MatchedInterval(Len(tracklist)) = Len(silent_segments)
    /\ MatchedInterval(Len(tracklist)) > MatchedInterval(Len(tracklist) - 1) + 1

\* C3 as claimed: whatever the order of the track lines in the file, the
\* boundaries are assigned to the tracks in ascending track_number order.
C3_TrackNumberOrder ==
    pc = "done" =>
        \A i, j \in 1..Len(audio_segments) :
            i < j => audio_segments[i][2].track_number < audio_segments[j][2].track_number

\* C5: if the intervals (the terminal one included) run out while track k is
\* scanned, the call still returns: exactly the segments of the tracks before
\* k, none for k or a later track; no interval is tested twice and an interval
\* the generator never handed out is never tested.
C5_ExhaustionIsNotFatal ==
    pc = "done" =>
        LET n == Len(audio_segments)
        IN  /\ n <= Len(tracklist)
            /\ \A i \in 1..n : audio_segments[i][2] = tracklist[i]
            /\ n = Len(Splices)
            /\ n < Len(tracklist) =>
                   /\ silent_gen = Len(silent_segments)
                   /\ \A r \in Range(inspected) : r.track <= n + 1
            /\ Len(inspected) = silent_gen
            /\ \A i \in 1..Len(inspected) : inspected[i].interval = i

\* the intervals ran out on a track after another was spliced
C5_Witness ==
    /\ pc = "done"
    /\ Len(audio_segments) = 1
    /\ Len(tracklist) > 1
    /\ silent_gen = Len(silent_segments)
    /\ \E r \in Range(inspected) : r.track = 2 /\ r.outcome = "skip"

\* position of a track in the tracklist
PositionOf(track) == CHOOSE i \in 1..Len(tracklist) : tracklist[i] = track

\* C7: at every point of the run the emitted list has at most len(tracklist)
\* entries, no track is in two of them, and the tracks come in tracklist order.
C7_SegmentsFollowTracklist ==
    InMatcher =>
        /\ Len(audio_segments) <= Len(tracklist)
        /\ \A i \in 1..Len(audio_segments) : audio_segments[i][2] \in Range(tracklist)
        /\ \A i, j \in 1..Len(audio_segments) :
               i < j => /\ audio_segments[i][2] # audio_segments[j][2]
                        /\ PositionOf(audio_segments[i][2])
                               < PositionOf(audio_segments[j][2])

\* two tracks were spliced while later silences were still to come
C7_Witness ==
    /\ pc = "for"
    /\ Len(audio_segments) = 2
    /\ silent_gen < Len(silent_segments)

\* C10: at every point of the loop time_offset is the album time at which the
\* most recently matched interval ends (0 before the first match) and the
\* remaining audio is the album from time_offset on; the untrimmed content of
\* the k-th emitted segment is album[e(k-1) : s(k)], and the emitted segments
\* are disjoint and ascending in album time.
C10_OffsetNeverDrifts ==
    InMatcher =>
        /\ time_offset = MatchedEnd(Len(Splices))
        /\ audio = SliceFrom(album, time_offset)
        /\ time_offset + SegLen(audio) = SegLen(album)
        /\ Len(cuts) = Len(audio_segments)
        /\ \A k \in 1..Len(cuts) :
               /\ cuts[k] = GetItem(album, MatchedEnd(k - 1), MatchedBegin(k))
               /\ MatchedEnd(k - 1) <= MatchedBegin(k)
               /\ MatchedBegin(k) <= MatchedEnd(k)
               /\ SegLen(cuts[k]) = MatchedBegin(k) - MatchedEnd(k - 1)

\* a second segment was cut, at an offset past the first interval
C10_Witness ==
    /\ InMatcher
    /\ Len(cuts) = 2
    /\ time_offset > MatchedEnd(1)
    /\ SegLen(cuts[2]) > 0

----------------------------------------------------------------------------
(* Claim on the tolerance (SpecMono). *)

\* C6: for a fixed tracklist and fixed ascending, non-overlapping intervals,
\* a call with tolerance t2 >= t1 emits at least as many segments as the call
\* with tolerance t1.
C6_MonotonicInTolerance ==
    (pc = "done" /\ run = 2) => Len(audio_segments) >= first_count

\* the wider tolerance found a segment the narrower one had missed
C6_Witness ==
    /\ pc = "done"
    /\ run = 2
    /\ first_count >= 1
    /\ Len(audio_segments) > first_count

----------------------------------------------------------------------------
(* Claims on the trimmer (SpecTrim) and on audioutil's main (SpecUtil). *)

\* C4 as claimed: when the trailing silence detected on a view is 0, trimming
\* does not drop the last sample: the result is view[L : len(view)], of length
\* len(view) - L, L being the leading silence.
C4_ZeroTrailingKeepsLastSample ==
    (/\ strips >= 1
     /\ detect_leading_silence(Reverse(prev_audio), silence_threshold, SEEK_STEP) = 0)
    => /\ SameAudio(audio, SliceFrom(prev_audio, leading_silence))
       /\ SegLen(audio) = SegLen(prev_audio) - leading_silence

\* C8 as claimed: trimming the result of a trim, with the same threshold,
\* returns that same view, removing nothing further at either end.
C8_TrimIsIdempotent ==
    strips >= 2 => SameAudio(audio, prev_audio)

\* C9 as claimed: a requested fixed gain of 0 (-v 0) is still carried out:
\* main runs segments_loudness on the segments, leaves them unchanged and
\* marks the run for export.
C9_ZeroGainIsStillApplied ==
    (pc = "done" /\ args.loudness = Some(0)) =>
        /\ "segments_loudness" \in Range(calls)
        /\ export
        /\ "segments_export" \in Range(calls)

====
